---- MODULE Spec2Model ----
(***************************************************************************)
(* Happy_app.py: a Streamlit script over the World Happiness Report CSV.   *)
(* Every user interaction reruns the whole script top to bottom; the only  *)
(* state that survives a rerun is the st.cache_data store and the widget   *)
(* values of the session.  The script is modelled statement group by       *)
(* statement group (pc), a rerun being the walk from "load" to "done" (or  *)
(* to "error" when a statement raises).                                    *)
(*                                                                         *)
(* Numbers: a float cell is an integer count of hundredths (4.50 = 450),   *)
(* a missing cell is NaN.  A reduction result is the ratio num/den, and    *)
(* 0/0 is the float NaN.                                                   *)
(***************************************************************************)
EXTENDS Integers, Sequences, FiniteSets, TLC

VARIABLES
    file,               \* contents of the CSV on disk
    cache,              \* st.cache_data store of load_data
    reads,              \* number of pd.read_csv calls so far
    first_load,         \* history: what the first read_csv call returned
    runs,               \* number of script runs started
    pc,                 \* position of the running script
    widgets,            \* session: the values of the four input widgets
    data,               \* script variable data
    selected_countries, \* script variable selected_countries
    year_range,         \* script variable year_range
    filtered_data,      \* script variable filtered_data
    scores,             \* script variables avg_score, min_score, max_score
    metrics,            \* the three st.metric values of Key Statistics
    insights,           \* what the Insights tab shows
    trend_chart,        \* points given to px.line (Trends tab)
    global_map,         \* filtered_global_data given to px.choropleth
    detail_table,       \* what the Detailed Metrics tab shows
    comparison_chart,   \* bars given to px.bar (Comparisons tab)
    csv                 \* bytes handed to st.download_button

vars == <<file, cache, reads, first_load, runs, pc, widgets, data,
          selected_countries, year_range, filtered_data, scores, metrics,
          insights, trend_chart, global_map, detail_table, comparison_chart,
          csv>>

\* Number of script runs explored.
MaxRuns == 3

NaN == -1

----------------------------------------------------------------------------
(* Frames *)

Columns == <<"Country name", "year", "Life Ladder", "Log GDP per capita",
             "Social support", "Healthy life expectancy at birth">>

\* One row: its index label, and the cells of the columns the script computes
\* with.  Social support and healthy life expectancy are carried by name only.
Row(i, c, y, ll, gdp) ==
    [idx |-> i, country |-> c, year |-> y, ll |-> ll, gdp |-> gdp]

\* A row as pd.read_csv parses it: the year cell is a number like any other
\* (hundredths), not yet coerced to an integer.
CsvRow(i, c, y, ll, gdp) == Row(i, c, y * 100, ll, gdp)

EmptyFrame == [cols |-> <<>>, rows |-> <<>>]

\* The CSV files the program may find on disk.
FileA == [cols |-> Columns,
          rows |-> << CsvRow(0, "Mongolia", 2015, 450, 900),
                      CsvRow(1, "Mongolia", 2016, 500, NaN),
                      CsvRow(2, "Finland",  2015, 750, 1080),
                      CsvRow(3, "Finland",  2023, 770, 1090),
                      CsvRow(4, "Chad",     2010, NaN, 730) >>]

FileB == [cols |-> Columns,
          rows |-> << CsvRow(0, "Mongolia", 2010, 500, 880),
                      CsvRow(1, "Mongolia", 2015, NaN, 890),
                      CsvRow(2, "Mongolia", 2023, 700, NaN),
                      CsvRow(3, "Finland",  2015, 780, 1080) >>]

Files == {FileA, FileB}

Range(s) == {s[i] : i \in DOMAIN s}

RECURSIVE SeqSum(_)
SeqSum(s) == IF s = <<>> THEN 0 ELSE Head(s) + SeqSum(Tail(s))

SetMin(S) == CHOOSE x \in S : \A y \in S : x <= y
SetMax(S) == CHOOSE x \in S : \A y \in S : x >= y

\* df[col]: one column as a sequence of cells.
Col(frame, name) ==
    [i \in 1..Len(frame.rows) |->
        CASE name = "Life Ladder"        -> frame.rows[i].ll
          [] name = "Log GDP per capita" -> frame.rows[i].gdp
          [] name = "year"               -> frame.rows[i].year]

\* df[mask]: a new frame with the rows whose mask entry is true, in order,
\* each keeping its index label; the columns are those of df.
BoolIndex(frame, mask) ==
    LET pos  == [i \in 1..Len(frame.rows) |-> i]
        kept == SelectSeq(pos, LAMBDA i : mask[i])
    IN  [cols |-> frame.cols,
         rows |-> [k \in 1..Len(kept) |-> frame.rows[kept[k]]]]

\* df.empty
Empty(frame) == Len(frame.rows) = 0

----------------------------------------------------------------------------
(* Reductions (pandas, skipna=True) and formatting *)

NaNF == [num |-> 0, den |-> 0]
IsNaNF(x) == x.den = 0

Present(cells) == SelectSeq(cells, LAMBDA v : v # NaN)

\* Series.mean(): sum of the present cells over their count; 0/0 is NaN.
Mean(cells) ==
    [num |-> SeqSum(Present(cells)), den |-> Len(Present(cells))]

\* Series.min() / Series.max(): over the present cells; NaN when there is none.
Min(cells) ==
    IF Present(cells) = <<>> THEN NaNF
    ELSE [num |-> SetMin(Range(Present(cells))), den |-> 1]

Max(cells) ==
    IF Present(cells) = <<>> THEN NaNF
    ELSE [num |-> SetMax(Range(Present(cells))), den |-> 1]

\* Nearest integer to n/d (n >= 0, d > 0), ties to even.
RoundHalfEven(n, d) ==
    LET q == n \div d
        r == n % d
    IN  IF 2 * r < d THEN q
        ELSE IF 2 * r > d THEN q + 1
        ELSE IF q % 2 = 0 THEN q ELSE q + 1

\* f"{x:.2f}": "nan" for NaN, else the value rounded to hundredths.
Fmt2(x) ==
    IF IsNaNF(x) THEN [text |-> "nan", val |-> 0]
    ELSE [text |-> "number", val |-> RoundHalfEven(x.num, x.den)]

NA == [text |-> "N/A", val |-> 0]

----------------------------------------------------------------------------
(* load_data *)

\* Series.astype(int) on a non-negative numeric cell: truncation.
AsTypeInt(cell) == cell \div 100

\* The body of load_data: read_csv, then the year column coerced to int.
ReadCsv(f) ==
    [cols |-> f.cols,
     rows |-> [i \in 1..Len(f.rows) |->
                  [f.rows[i] EXCEPT !.year = AsTypeInt(@)]]]

\* A call of load_data that ignores the store and runs the body every time.
LoadData_uncached(c, f) ==
    [value |-> ReadCsv(f), read |-> TRUE,
     cache |-> [filled |-> TRUE, value |-> ReadCsv(f)]]

\* @st.cache_data load_data(): on a miss run the body and store the result,
\* on a hit return (a copy of) the stored value without running the body.
LoadData(c, f) ==
    IF c.filled
    THEN [value |-> c.value, read |-> FALSE, cache |-> c]
    ELSE [value |-> ReadCsv(f), read |-> TRUE,
          cache |-> [filled |-> TRUE, value |-> ReadCsv(f)]]

----------------------------------------------------------------------------
(* Widgets *)

DefaultCountries == {"Mongolia"}
DefaultYears     == <<2010, 2023>>
DefaultScores    == <<0, 1000>>
TrendVars        == {"Life Ladder", "Log GDP per capita"}

\* data['Country name'].unique(): the options of the multiselect.
CountryOptions(d) == {d.rows[i].country : i \in 1..Len(d.rows)}

YearMin(d) == SetMin(Range(Col(d, "year")))
YearMax(d) == SetMax(Range(Col(d, "year")))

\* Slider positions tried: the years of the data and the two defaults, inside
\* the slider's bounds.  Any other position filters like the nearest of these.
YearTicks(d) ==
    {y \in Range(Col(d, "year")) \cup Range(DefaultYears) :
        YearMin(d) <= y /\ y <= YearMax(d)}

\* Score slider positions tried (0.0 .. 10.0).
ScoreTicks == {0, 500, 1000}

WidgetValues(d) ==
    [countries : SUBSET CountryOptions(d),
     years     : {yr \in YearTicks(d) \X YearTicks(d) : yr[1] <= yr[2]},
     trend     : TrendVars,
     score     : {sr \in ScoreTicks \X ScoreTicks : sr[1] <= sr[2]}]

DefaultWidgets ==
    [countries |-> DefaultCountries, years |-> DefaultYears,
     trend |-> "Life Ladder", score |-> DefaultScores]

----------------------------------------------------------------------------
(* The script's computations *)

\* The filter with the upper year bound compared the wrong way round.
FilteredData_flipped(d, sel, yr) ==
    BoolIndex(d, [i \in 1..Len(d.rows) |->
                     /\ d.rows[i].country \in sel
                     /\ d.rows[i].year >= yr[1]
                     /\ d.rows[i].year >= yr[2]])

\* The filter keeping the rows of the countries that are not selected.
FilteredData_negated(d, sel, yr) ==
    BoolIndex(d, [i \in 1..Len(d.rows) |->
                     /\ d.rows[i].country \notin sel
                     /\ d.rows[i].year >= yr[1]
                     /\ d.rows[i].year <= yr[2]])

\* The filter returning its matches last row first.
FilteredData_reversed(d, sel, yr) ==
    LET m == BoolIndex(d, [i \in 1..Len(d.rows) |->
                              /\ d.rows[i].country \in sel
                              /\ d.rows[i].year >= yr[1]
                              /\ d.rows[i].year <= yr[2]])
    IN  [cols |-> m.cols,
         rows |-> [k \in 1..Len(m.rows) |-> m.rows[Len(m.rows) + 1 - k]]]

\* data[isin(selected_countries) & (year >= year_range[0]) & (year <= year_range[1])]
FilteredData(d, sel, yr) ==
    BoolIndex(d, [i \in 1..Len(d.rows) |->
                     /\ d.rows[i].country \in sel
                     /\ d.rows[i].year >= yr[1]
                     /\ d.rows[i].year <= yr[2]])

\* Reductions that do not skip missing cells: NaN as soon as one is missing.
KeyScores_noskip(fd) ==
    LET cells == Col(fd, "Life Ladder")
    IN  IF \E i \in DOMAIN cells : cells[i] = NaN
        THEN [avg |-> NaNF, min |-> NaNF, max |-> NaNF]
        ELSE [avg |-> Mean(cells), min |-> Min(cells), max |-> Max(cells)]

\* avg_score, min_score, max_score
KeyScores(fd) ==
    [avg |-> Mean(Col(fd, "Life Ladder")),
     min |-> Min(Col(fd, "Life Ladder")),
     max |-> Max(Col(fd, "Life Ladder"))]

\* The metrics with the lowest score shown whatever the view holds.
KeyMetrics_unguarded(fd, sc) ==
    << IF ~Empty(fd) THEN Fmt2(sc.avg) ELSE NA,
       Fmt2(sc.min),
       IF ~Empty(fd) THEN Fmt2(sc.max) ELSE NA >>

\* The three st.metric values: formatted unless the view is empty.
KeyMetrics(fd, sc) ==
    << IF ~Empty(fd) THEN Fmt2(sc.avg) ELSE NA,
       IF ~Empty(fd) THEN Fmt2(sc.min) ELSE NA,
       IF ~Empty(fd) THEN Fmt2(sc.max) ELSE NA >>

\* selected_countries[0] of a one-element selection.
First(sel) == CHOOSE c \in sel : TRUE

\* Series.idxmax() / idxmin(): the index label of the first present cell that
\* holds the maximum / minimum.  Only defined when some cell is present.
IdxMax(frame, name) ==
    LET cells == Col(frame, name)
        top   == SetMax(Range(Present(cells)))
    IN  frame.rows[SetMin({i \in DOMAIN cells : cells[i] = top})].idx

IdxMin(frame, name) ==
    LET cells == Col(frame, name)
        low   == SetMin(Range(Present(cells)))
    IN  frame.rows[SetMin({i \in DOMAIN cells : cells[i] = low})].idx

\* frame.loc[label, 'year']
LocYear(frame, label) ==
    LET i == CHOOSE k \in 1..Len(frame.rows) : frame.rows[k].idx = label
    IN  frame.rows[i].year

\* The Insights frame taken from the filtered view instead of the Dataset.
CountryData_filtered(d, fd, sel) ==
    BoolIndex(fd, [i \in 1..Len(fd.rows) |-> fd.rows[i].country = First(sel)])

\* country_data = data[data['Country name'] == selected_countries[0]]
CountryData(d, fd, sel) ==
    BoolIndex(d, [i \in 1..Len(d.rows) |-> d.rows[i].country = First(sel)])

NoInsights == [kind |-> "none", avg |-> NA, hi |-> NA, hi_year |-> 0,
               lo |-> NA, lo_year |-> 0, gdp |-> NA]

\* idxmax/idxmin of an all-missing column raise (or give a NaN label that
\* .loc rejects): the run ends with an exception.
InsightsRaises(cd) ==
    ~Empty(cd) /\ Present(Col(cd, "Life Ladder")) = <<>>

\* The Key Indicators of the Insights tab.
InsightsOf(cd) ==
    IF Empty(cd)
    THEN [NoInsights EXCEPT !.kind = "no data"]
    ELSE [kind    |-> "indicators",
          avg     |-> Fmt2(Mean(Col(cd, "Life Ladder"))),
          hi      |-> Fmt2(Max(Col(cd, "Life Ladder"))),
          hi_year |-> LocYear(cd, IdxMax(cd, "Life Ladder")),
          lo      |-> Fmt2(Min(Col(cd, "Life Ladder"))),
          lo_year |-> LocYear(cd, IdxMin(cd, "Life Ladder")),
          gdp     |-> Fmt2(Mean(Col(cd, "Log GDP per capita")))]

\* px.line(filtered_data, x="year", y=trend_var, color="Country name")
TrendPoints(fd, trend_var) ==
    [i \in 1..Len(fd.rows) |->
        [x |-> fd.rows[i].year, y |-> Col(fd, trend_var)[i],
         color |-> fd.rows[i].country]]

\* filtered_global_data; a comparison with a missing cell is false.
FilteredGlobalData(d, yr, sr) ==
    LET global_data ==
            BoolIndex(d, [i \in 1..Len(d.rows) |-> d.rows[i].year = yr[2]])
    IN  BoolIndex(global_data,
                  [i \in 1..Len(global_data.rows) |->
                      /\ global_data.rows[i].ll # NaN
                      /\ global_data.rows[i].ll >= sr[1]
                      /\ global_data.rows[i].ll <= sr[2]])

\* frame["Country (Year)"] = frame["Country name"] + " (" + str(year) + ")":
\* the frame gains the column as its last one, every row gains the cell.
WithCountryYear(frame) ==
    [cols |-> Append(frame.cols, "Country (Year)"),
     rows |-> [i \in 1..Len(frame.rows) |->
                  frame.rows[i] @@
                  ("cy" :> <<frame.rows[i].country, frame.rows[i].year>>)]]

\* The column assignment reaching the frame it was filtered from as well.
Comparisons_shared(d, fd) ==
    [data |-> WithCountryYear(d), filtered_data |-> WithCountryYear(fd)]

\* The column assignment of the Comparisons tab.  filtered_data is the copy
\* that boolean indexing made, so data is not touched.
Comparisons(d, fd) ==
    [data |-> d, filtered_data |-> WithCountryYear(fd)]

\* to_csv(index=False): the column names, then every row without its label.
ToCsv(frame) ==
    [header |-> frame.cols,
     lines  |-> [i \in 1..Len(frame.rows) |->
                    [f \in DOMAIN frame.rows[i] \ {"idx"} |-> frame.rows[i][f]]]]

----------------------------------------------------------------------------
(* State machine *)

Unset       == [text |-> "", val |-> 0]
NoScores    == [avg |-> NaNF, min |-> NaNF, max |-> NaNF]
NoTable     == [kind |-> "none", frame |-> EmptyFrame]
NoCsv       == [header |-> <<>>, lines |-> <<>>]

session == <<file, cache, reads, first_load, runs, widgets>>
outputs == <<metrics, insights, trend_chart, global_map, detail_table,
             comparison_chart, csv>>

Init ==
    /\ file \in Files
    /\ cache = [filled |-> FALSE, value |-> EmptyFrame]
    /\ reads = 0
    /\ first_load = EmptyFrame
    /\ runs = 1
    /\ pc = "load"
    /\ widgets = DefaultWidgets
    \* a fresh script namespace: nothing bound, nothing rendered
    /\ data = EmptyFrame
    /\ selected_countries = {}
    /\ year_range = <<0, 0>>
    /\ filtered_data = EmptyFrame
    /\ scores = NoScores
    /\ metrics = <<Unset, Unset, Unset>>
    /\ insights = NoInsights
    /\ trend_chart = <<>>
    /\ global_map = EmptyFrame
    /\ detail_table = NoTable
    /\ comparison_chart = EmptyFrame
    /\ csv = NoCsv

\* The file on disk is replaced by another one (outside the program).
ChangeFile ==
    /\ \E f \in Files \ {file} : file' = f
    /\ UNCHANGED <<cache, reads, first_load, runs, pc, widgets, data,
                   selected_countries, year_range, filtered_data, scores,
                   outputs>>

\* The user moves the widgets; Streamlit reruns the script from the top.
Interact ==
    /\ pc \in {"done", "error"}
    /\ runs < MaxRuns
    /\ runs' = runs + 1
    /\ widgets' \in WidgetValues(cache.value)
    /\ pc' = "load"
    \* a fresh script namespace: nothing bound, nothing rendered
    /\ data' = EmptyFrame
    /\ selected_countries' = {}
    /\ year_range' = <<0, 0>>
    /\ filtered_data' = EmptyFrame
    /\ scores' = NoScores
    /\ metrics' = <<Unset, Unset, Unset>>
    /\ insights' = NoInsights
    /\ trend_chart' = <<>>
    /\ global_map' = EmptyFrame
    /\ detail_table' = NoTable
    /\ comparison_chart' = EmptyFrame
    /\ csv' = NoCsv
    /\ UNCHANGED <<file, cache, reads, first_load>>

\* data = load_data()
Load ==
    /\ pc = "load"
    /\ LET r == LoadData(cache, file)
       IN  /\ data' = r.value
           /\ cache' = r.cache
           /\ reads' = IF r.read THEN reads + 1 ELSE reads
           /\ first_load' = IF r.read /\ reads = 0 THEN r.value ELSE first_load
    /\ pc' = "widgets"
    /\ UNCHANGED <<file, runs, widgets, selected_countries, year_range,
                   filtered_data, scores, outputs>>

\* selected_countries = st.sidebar.multiselect(...); year_range = slider(...)
Sidebar ==
    /\ pc = "widgets"
    /\ selected_countries' = widgets.countries
    /\ year_range' = widgets.years
    /\ pc' = "filter"
    /\ UNCHANGED <<session, data, filtered_data, scores, outputs>>

\* filtered_data = data[...]
Filter ==
    /\ pc = "filter"
    /\ filtered_data' = FilteredData(data, selected_countries, year_range)
    /\ pc' = "metrics"
    /\ UNCHANGED <<session, data, selected_countries, year_range, scores,
                   outputs>>

\* Key metrics and the three st.metric calls.
KeyStatistics ==
    /\ pc = "metrics"
    /\ scores' = KeyScores(filtered_data)
    /\ metrics' = KeyMetrics(filtered_data, KeyScores(filtered_data))
    /\ pc' = "tab1"
    /\ UNCHANGED <<session, data, selected_countries, year_range,
                   filtered_data, insights, trend_chart, global_map,
                   detail_table, comparison_chart, csv>>

\* Insights tab.
Insights ==
    /\ pc = "tab1"
    /\ IF Cardinality(selected_countries) = 1
       THEN LET cd == CountryData(data, filtered_data, selected_countries)
            IN  IF InsightsRaises(cd)
                THEN pc' = "error" /\ insights' = insights
                ELSE pc' = "tab2" /\ insights' = InsightsOf(cd)
       ELSE pc' = "tab2" /\ insights' = [NoInsights EXCEPT !.kind = "prompt"]
    /\ UNCHANGED <<session, data, selected_countries, year_range,
                   filtered_data, scores, metrics, trend_chart, global_map,
                   detail_table, comparison_chart, csv>>

\* Trends tab.
Trends ==
    /\ pc = "tab2"
    /\ trend_chart' = IF Cardinality(selected_countries) > 0
                      THEN TrendPoints(filtered_data, widgets.trend)
                      ELSE trend_chart
    /\ pc' = "tab3"
    /\ UNCHANGED <<session, data, selected_countries, year_range,
                   filtered_data, scores, metrics, insights, global_map,
                   detail_table, comparison_chart, csv>>

\* Global Map tab.
GlobalMap ==
    /\ pc = "tab3"
    /\ global_map' = FilteredGlobalData(data, year_range, widgets.score)
    /\ pc' = "tab4"
    /\ UNCHANGED <<session, data, selected_countries, year_range,
                   filtered_data, scores, metrics, insights, trend_chart,
                   detail_table, comparison_chart, csv>>

\* Detailed Metrics tab.
DetailedMetrics ==
    /\ pc = "tab4"
    /\ detail_table' = IF Cardinality(selected_countries) > 0
                       THEN [kind |-> "table", frame |-> filtered_data]
                       ELSE [kind |-> "prompt", frame |-> EmptyFrame]
    /\ pc' = "tab5"
    /\ UNCHANGED <<session, data, selected_countries, year_range,
                   filtered_data, scores, metrics, insights, trend_chart,
                   global_map, comparison_chart, csv>>

\* Comparisons tab.
ComparisonsTab ==
    /\ pc = "tab5"
    /\ IF Cardinality(selected_countries) > 1
       THEN LET r == Comparisons(data, filtered_data)
            IN  /\ data' = r.data
                /\ filtered_data' = r.filtered_data
                /\ comparison_chart' = r.filtered_data
       ELSE UNCHANGED <<data, filtered_data, comparison_chart>>
    /\ pc' = "export"
    /\ UNCHANGED <<session, selected_countries, year_range, scores, metrics,
                   insights, trend_chart, global_map, detail_table, csv>>

\* csv = filtered_data.to_csv(index=False); st.download_button(data=csv)
Export ==
    /\ pc = "export"
    /\ csv' = ToCsv(filtered_data)
    /\ pc' = "done"
    /\ UNCHANGED <<session, data, selected_countries, year_range,
                   filtered_data, scores, metrics, insights, trend_chart,
                   global_map, detail_table, comparison_chart>>

Next ==
    \/ ChangeFile
    \/ Interact
    \/ Load
    \/ Sidebar
    \/ Filter
    \/ KeyStatistics
    \/ Insights
    \/ Trends
    \/ GlobalMap
    \/ DetailedMetrics
    \/ ComparisonsTab
    \/ Export

Spec == Init /\ [][Next]_vars

----------------------------------------------------------------------------
(* The filter and the reductions on arbitrary criteria: any set of names,  *)
(* known or not, and any pair of years, ordered or not.                    *)

AnyCountries == {"Mongolia", "Finland", "Chad", "Atlantis"}
AnyYears     == {2010, 2015, 2016, 2023}

FilterInit ==
    /\ file \in Files
    /\ cache = [filled |-> TRUE, value |-> ReadCsv(file)]
    /\ reads = 1
    /\ first_load = ReadCsv(file)
    /\ runs = 1
    /\ pc = "filter"
    /\ widgets = DefaultWidgets
    /\ data = ReadCsv(file)
    /\ selected_countries \in SUBSET AnyCountries
    /\ year_range \in AnyYears \X AnyYears
    /\ filtered_data = EmptyFrame
    /\ scores = NoScores
    /\ metrics = <<Unset, Unset, Unset>>
    /\ insights = NoInsights
    /\ trend_chart = <<>>
    /\ global_map = EmptyFrame
    /\ detail_table = NoTable
    /\ comparison_chart = EmptyFrame
    /\ csv = NoCsv

FilterNext ==
    \/ Filter
    \/ KeyStatistics

FilterSpec == FilterInit /\ [][FilterNext]_vars

----------------------------------------------------------------------------
(* Properties *)

TypeOK == pc \in {"load", "widgets", "filter", "metrics", "tab1", "tab2",
                  "tab3", "tab4", "tab5", "export", "done", "error"}

\* Positions at which filtered_data is what the filter returned.
Filtered == pc \in {"metrics", "tab1", "tab2", "tab3", "tab4", "tab5", "error"}

\* Positions at which the Key Statistics have been computed and shown.
MetricsShown == pc \in {"tab1", "tab2", "tab3", "tab4", "tab5", "export",
                        "done", "error"}

\* Positions at which the Insights tab has been rendered.
InsightsShown == pc \in {"tab2", "tab3", "tab4", "tab5", "export", "done"}

Matches(r, sel, yr) ==
    r.country \in sel /\ yr[1] <= r.year /\ r.year <= yr[2]

\* Positions of the view's rows whose Life Ladder cell is present.
PresentAt(frame) == {i \in 1..Len(frame.rows) : frame.rows[i].ll # NaN}

RECURSIVE SumLL(_, _)
SumLL(frame, S) ==
    IF S = {} THEN 0
    ELSE LET i == CHOOSE j \in S : TRUE
         IN  frame.rows[i].ll + SumLL(frame, S \ {i})

\* C1: a record of the Dataset is in the filtered view if and only if its
\* country is selected and its year lies in the inclusive range; an empty
\* selection, a selection of unknown names only, and a range with
\* year_min > year_max each give an empty view.
C1_FilterIffCriteria ==
    Filtered =>
        /\ \A i \in 1..Len(data.rows) :
              (data.rows[i] \in Range(filtered_data.rows))
                  <=> Matches(data.rows[i], selected_countries, year_range)
        /\ selected_countries = {} => Empty(filtered_data)
        /\ selected_countries \cap CountryOptions(data) = {}
              => Empty(filtered_data)
        /\ year_range[1] > year_range[2] => Empty(filtered_data)

C1_Witness ==
    /\ pc = "metrics"
    /\ "Atlantis" \in selected_countries
    /\ ~Empty(filtered_data)
    /\ Len(filtered_data.rows) < Len(data.rows)

\* C2: the three Key Statistics are all "N/A" when the filtered view is
\* empty (none is "nan"), and none of them is "N/A" when it is not empty.
C2_NAIffEmpty ==
    MetricsShown =>
        /\ Empty(filtered_data) => \A k \in 1..3 : metrics[k] = NA
        /\ ~Empty(filtered_data) => \A k \in 1..3 : metrics[k] # NA

C2_Witness ==
    /\ MetricsShown
    /\ selected_countries # {}
    /\ Empty(filtered_data)
    /\ metrics = <<NA, NA, NA>>

\* C3: a non-empty view whose Life Ladder cells are all missing is reported
\* as unavailable ("N/A") for mean, min and max.
C3_AllMissingIsNA ==
    (MetricsShown /\ ~Empty(filtered_data) /\ PresentAt(filtered_data) = {})
        => \A k \in 1..3 : metrics[k] = NA

\* C4: when some Life Ladder cell of the view is present, the mean is the sum
\* of the present cells over their number, and min and max are the least
\* and greatest present cell; missing cells count for nothing.
C4_SkipMissing ==
    (MetricsShown /\ PresentAt(filtered_data) # {}) =>
        LET P  == PresentAt(filtered_data)
            vs == {filtered_data.rows[i].ll : i \in P}
        IN  /\ scores.avg = [num |-> SumLL(filtered_data, P),
                             den |-> Cardinality(P)]
            /\ scores.min.den = 1 /\ scores.min.num \in vs
            /\ \A v \in vs : scores.min.num <= v
            /\ scores.max.den = 1 /\ scores.max.num \in vs
            /\ \A v \in vs : scores.max.num >= v

\* The view [5.00, missing, 7.00]: mean 6.00, min 5.00, max 7.00.
C4_Witness ==
    /\ MetricsShown
    /\ Col(filtered_data, "Life Ladder") = <<500, NaN, 700>>
    /\ metrics = << [text |-> "number", val |-> 600],
                     [text |-> "number", val |-> 500],
                     [text |-> "number", val |-> 700] >>

\* C5: the Dataset is never changed: the cached value and the data of every
\* run have the records and the columns of the first load, and the view of
\* a run is the filter of that first load under the run's criteria.
C5_DatasetUnchanged ==
    /\ cache.filled => cache.value = first_load
    /\ pc # "load" =>
          /\ data.cols = first_load.cols
          /\ data.rows = first_load.rows
    /\ Filtered =>
          filtered_data.rows
              = FilteredData(first_load, selected_countries, year_range).rows

C5_Witness ==
    /\ pc = "done"
    /\ runs >= 2
    /\ Cardinality(selected_countries) > 1
    /\ ~Empty(filtered_data)
    /\ "Country (Year)" \in Range(filtered_data.cols)

\* C6: the view handed to CSV export has exactly the columns of the Dataset,
\* in the Dataset's order.
C6_ExportColumns ==
    pc = "done" => csv.header = data.cols

\* C7: the filtered view is a subsequence of the Dataset: each of its rows
\* is the Dataset row with the same label, and labels strictly increase in
\* the Dataset's order.
C7_Subsequence ==
    Filtered =>
        \A k \in 1..Len(filtered_data.rows) :
            \E p \in 1..Len(data.rows) :
                /\ filtered_data.rows[k] = data.rows[p]
                /\ k > 1 =>
                      \E q \in 1..(p - 1) :
                          filtered_data.rows[k - 1] = data.rows[q]

C7_Witness ==
    /\ pc = "metrics"
    /\ Len(filtered_data.rows) >= 3
    /\ Len(filtered_data.rows) < Len(data.rows)
    /\ filtered_data.rows[1] # data.rows[1]

\* C8: every record of the view stays in the view when the year range is
\* widened (smaller or equal year_min, greater or equal year_max).
C8_WideningKeeps ==
    Filtered =>
        \A lo \in AnyYears, hi \in AnyYears :
            (lo <= year_range[1] /\ hi >= year_range[2]) =>
                Range(filtered_data.rows) \subseteq
                    Range(FilteredData(data, selected_countries,
                                       <<lo, hi>>).rows)

C8_Witness ==
    /\ pc = "metrics"
    /\ ~Empty(filtered_data)
    /\ \E lo \in AnyYears, hi \in AnyYears :
          /\ lo <= year_range[1] /\ hi >= year_range[2]
          /\ Len(FilteredData(data, selected_countries, <<lo, hi>>).rows)
                > Len(filtered_data.rows)

\* C9: the CSV file is read at most once; from the second run on, load_data
\* reads nothing and returns the value of the first read.
C9_ReadOnce ==
    /\ reads <= 1
    /\ (runs >= 2 /\ pc # "load") => (reads = 1 /\ data = first_load)

\* A later run whose data is the cached one although the file has changed.
C9_Witness ==
    /\ runs >= 2
    /\ pc = "widgets"
    /\ data # ReadCsv(file)

\* C10: with exactly one country selected, the Insights figures are those of
\* all the Dataset's records of that country, whatever the year range.
C10_InsightsIgnoreYears ==
    (InsightsShown /\ Cardinality(selected_countries) = 1) =>
        LET P  == {i \in PresentAt(first_load) :
                      first_load.rows[i].country \in selected_countries}
            vs == {first_load.rows[i].ll : i \in P}
        IN  /\ insights.kind = "indicators"
            /\ P # {}
            /\ insights.avg = [text |-> "number",
                               val |-> RoundHalfEven(SumLL(first_load, P),
                                                     Cardinality(P))]
            /\ insights.hi = [text |-> "number", val |-> SetMax(vs)]
            /\ insights.lo = [text |-> "number", val |-> SetMin(vs)]
            /\ \E i \in P : /\ first_load.rows[i].ll = SetMax(vs)
                             /\ first_load.rows[i].year = insights.hi_year
            /\ \E i \in P : /\ first_load.rows[i].ll = SetMin(vs)
                             /\ first_load.rows[i].year = insights.lo_year

\* Key Statistics unavailable, Insights numeric, for the same country.
C10_Witness ==
    /\ InsightsShown
    /\ Cardinality(selected_countries) = 1
    /\ metrics = <<NA, NA, NA>>
    /\ insights.kind = "indicators"
    /\ insights.avg.text = "number"

====
